---- MODULE Spec2Model ----
(***************************************************************************)
(* Battleship rules engine (ttempleton/rust-battleship): Direction, Space, *)
(* Ship, Player and Game, modelled as a state machine whose actions are    *)
(* the public operations of Game.  Positions are pairs <<x, y>> (Rust      *)
(* [u8; 2], pos[0] = x, pos[1] = y); a Rust Vec is a TLA+ sequence, so the *)
(* Rust index i is the TLA+ index i + 1.  An operation is an operator from *)
(* the value it acts on to a record: `ret` is "ok" or "err" for the Result *)
(* it returns, or "panic" when it panics, and the other field is the value *)
(* it leaves.  `app` holds the fields of App next to its game: whether    *)
(* the turn is open, and the two delay timers.  `call` records the last    *)
(* call a caller made directly to an operation of Direction, Ship or       *)
(* Player with arguments of its own: the operation, its arguments and what *)
(* it returned.                                                            *)
(***************************************************************************)
EXTENDS Integers, Sequences, FiniteSets, TLC

VARIABLES state, turn, players, call, app

vars == <<state, turn, players, call, app>>

(***************************************************************************)
(* Settings (GameSettings), scaled down from the 10x10 grid and the ships  *)
(* [2, 3, 4, 5] of the source.                                             *)
(***************************************************************************)
GridW == 3
GridH == 3
ShipLens == <<2, 3>>
\* Largest number of cells that may be checked over both grids together.
MaxShots == 7
\* set_placement_ship is called with sequences of at most MaxSetLen cells
\* whose coordinates are in 0 .. MaxCoord.
MaxSetLen == 2
\* Largest number of cells the computer-controlled player may check.
MaxHunt == 3
MaxCoord == 3
\* Largest number of cells checked over both grids while App runs the game.
MaxAppShots == 3
\* The operations of Ship are called directly with sequences of at most
\* MaxCallLen cells.
MaxCallLen == 3

\* The largest u8.
U8Max == 255

grid_size == <<GridW, GridH>>
settings == [spaces |-> grid_size, ships |-> ShipLens]

Directions == {"North", "East", "South", "West"}
Cells == (0 .. (GridW - 1)) \X (0 .. (GridH - 1))

None == [some |-> FALSE, v |-> <<>>]
Some(x) == [some |-> TRUE, v |-> x]

---------------------------------------------------------------------------
(* Direction *)

opposite(d) ==
  CASE d = "North" -> "South"
    [] d = "East" -> "West"
    [] d = "South" -> "North"
    [] d = "West" -> "East"

rotated(d) ==
  CASE d = "North" -> "East"
    [] d = "East" -> "South"
    [] d = "South" -> "West"
    [] d = "West" -> "North"

\* from_positions with its arguments taken the other way round.
from_positions_reversed(pos1, pos2) ==
  LET x_diff == pos2[1] - pos1[1]
      y_diff == pos2[2] - pos1[2]
  IN  IF x_diff = 0 /\ y_diff > 0 THEN "North"
      ELSE IF x_diff = 0 /\ y_diff < 0 THEN "South"
      ELSE IF x_diff > 0 /\ y_diff = 0 THEN "West"
      ELSE IF x_diff < 0 /\ y_diff = 0 THEN "East"
      ELSE "Err"

\* from_positions accepting only positions one unit apart.
from_positions_adjacent(pos1, pos2) ==
  LET x_diff == pos1[1] - pos2[1]
      y_diff == pos1[2] - pos2[2]
  IN  IF x_diff = 0 /\ y_diff = 1 THEN "North"
      ELSE IF x_diff = 0 /\ y_diff = -1 THEN "South"
      ELSE IF x_diff = 1 /\ y_diff = 0 THEN "West"
      ELSE IF x_diff = -1 /\ y_diff = 0 THEN "East"
      ELSE "Err"

\* Result<Direction>: the direction, or "Err".
from_positions(pos1, pos2) ==
  LET x_diff == pos1[1] - pos2[1]
      y_diff == pos1[2] - pos2[2]
  IN  IF x_diff = 0 /\ y_diff > 0 THEN "North"
      ELSE IF x_diff = 0 /\ y_diff < 0 THEN "South"
      ELSE IF x_diff > 0 /\ y_diff = 0 THEN "West"
      ELSE IF x_diff < 0 /\ y_diff = 0 THEN "East"
      ELSE "Err"

---------------------------------------------------------------------------
(* Space: SpaceState is "Unchecked", Checked(false) or Checked(true). *)

Unchecked == "Unchecked"
Checked(hit) == IF hit THEN "Checked_true" ELSE "Checked_false"

\* set_checked without its guard: a checked space is checked again.
set_checked_unguarded(s, hit) == [ret |-> "ok", v |-> Checked(hit)]

\* set_checked whose error path resets the space.
set_checked_reverting(s, hit) ==
  IF s # Unchecked
  THEN [ret |-> "err", v |-> Unchecked]
  ELSE [ret |-> "ok", v |-> Checked(hit)]

set_checked(s, hit) ==
  IF s # Unchecked
  THEN [ret |-> "err", v |-> s]
  ELSE [ret |-> "ok", v |-> Checked(hit)]

is_unchecked(s) == s = Unchecked
is_empty(s) == s = Checked(FALSE)
is_hit(s) == s = Checked(TRUE)

\* One space per cell, all unchecked; the vector is indexed from 0.
all_grid_spaces(gs) == [i \in 0 .. (gs[1] * gs[2] - 1) |-> Unchecked]

---------------------------------------------------------------------------
(* Ship *)

Abs(n) == IF n < 0 THEN -n ELSE n

\* Ship::new reads pos[1] and pos[0]: a position shorter than two cells is
\* an index out of range.
Ship_new(pos) ==
  IF Len(pos) < 2 THEN [ret |-> "panic", v |-> <<>>]
  ELSE LET dir == from_positions(pos[2], pos[1])
       IN  IF dir = "Err" THEN [ret |-> "err", v |-> <<>>]
           ELSE [ret |-> "ok",
                 v |-> [state |-> "Placement", position |-> pos, dir |-> dir]]

\* The loop of set_pos looking at the first pair of cells only.
set_pos_pairs_first(pos, dir) ==
  IF Abs(pos[1][1] - pos[2][1]) + Abs(pos[1][2] - pos[2][2]) = 1 THEN "ok" ELSE "err"

\* The loop of set_pos: the first pair of cells that is not a unit step, or
\* whose direction is an error or differs from dir, ends it.
set_pos_pairs(pos, dir) ==
  LET bad(i) == \/ Abs(pos[i][1] - pos[i + 1][1]) + Abs(pos[i][2] - pos[i + 1][2]) # 1
                \/ from_positions(pos[i + 1], pos[i]) # dir
  IN  IF \A i \in 1 .. (Len(pos) - 1) : ~bad(i) THEN "ok" ELSE "err"

set_pos(ship, pos) ==
  IF pos = <<>> THEN [ret |-> "err", v |-> ship]
  ELSE IF Len(pos) = 1 THEN [ret |-> "ok", v |-> [ship EXCEPT !.position = pos]]
  ELSE LET dir == from_positions(pos[2], pos[1])
       IN  IF dir = "Err" THEN [ret |-> "err", v |-> ship]
           ELSE IF set_pos_pairs(pos, dir) = "err" THEN [ret |-> "err", v |-> ship]
           ELSE [ret |-> "ok", v |-> [ship EXCEPT !.position = pos, !.dir = dir]]

is_placement(ship) == ship.state = "Placement"
is_active(ship) == ship.state = "Active"
is_sunk(ship) == ship.state = "Sunk"

\* set_active without its guard: any ship becomes Active.
set_active_unguarded(ship) == [ret |-> "ok", v |-> [ship EXCEPT !.state = "Active"]]

set_active(ship) ==
  IF ship.state # "Placement"
  THEN [ret |-> "err", v |-> ship]
  ELSE [ret |-> "ok", v |-> [ship EXCEPT !.state = "Active"]]

set_sunk(ship) ==
  IF ship.state # "Active"
  THEN [ret |-> "err", v |-> ship]
  ELSE [ret |-> "ok", v |-> [ship EXCEPT !.state = "Sunk"]]

---------------------------------------------------------------------------
(* Player *)

Contains(seq, x) == \E i \in 1 .. Len(seq) : seq[i] = x

\* Index of the first TRUE of a sequence of booleans (the closure applied to
\* each element), 0 when there is none (Iterator::position).
FirstIndex(tests) ==
  IF \E i \in 1 .. Len(tests) : tests[i]
  THEN CHOOSE i \in 1 .. Len(tests) :
         tests[i] /\ \A j \in 1 .. (i - 1) : ~tests[j]
  ELSE 0

Player_new(gs, ship_count, cpu) ==
  [is_cpu |-> cpu,
   spaces |-> all_grid_spaces(gs),
   ships |-> <<>>,
   capacity |-> ship_count,
   grid_size |-> gs,
   grid_cursor |-> <<0, 0>>]

valid_space(p, pos) == pos[1] < p.grid_size[1] /\ pos[2] < p.grid_size[2]

space_index(p, pos) == p.grid_size[1] * pos[1] + pos[2]

\* spaces.get(index): in range or not.
space_in_range(p, pos) == space_index(p, pos) \in DOMAIN p.spaces

space(p, pos) == p.spaces[space_index(p, pos)]

ship_is_in_space(p, pos) ==
  \E i \in 1 .. Len(p.ships) :
    Contains(p.ships[i].position, pos) /\ ~is_placement(p.ships[i])

ship_is_next_to(p, pos) ==
  LET x == pos[1]
      y == pos[2]
  IN  \/ x > 0 /\ ship_is_in_space(p, <<x - 1, y>>)
      \/ x < p.grid_size[1] - 1 /\ ship_is_in_space(p, <<x + 1, y>>)
      \/ y > 0 /\ ship_is_in_space(p, <<x, y - 1>>)
      \/ y < p.grid_size[2] - 1 /\ ship_is_in_space(p, <<x, y + 1>>)

valid_ship_position(p, new_ship) ==
  \A i \in 1 .. Len(new_ship) :
    /\ valid_space(p, new_ship[i])
    /\ ~ship_is_in_space(p, new_ship[i])
    /\ ~(ship_is_next_to(p, new_ship[i]) /\ p.is_cpu)

movement(p, pos, direction) ==
  LET valid == CASE direction = "North" -> pos[2] > 0
                 [] direction = "East" -> pos[1] < p.grid_size[1] - 1
                 [] direction = "South" -> pos[2] < p.grid_size[2] - 1
                 [] direction = "West" -> pos[1] > 0
  IN  IF valid
      THEN Some(CASE direction = "North" -> <<pos[1], pos[2] - 1>>
                  [] direction = "East" -> <<pos[1] + 1, pos[2]>>
                  [] direction = "South" -> <<pos[1], pos[2] + 1>>
                  [] direction = "West" -> <<pos[1] - 1, pos[2]>>)
      ELSE None

\* head, length and the coordinates are u8: a sum or difference that leaves
\* 0 .. U8Max wraps around in a build without overflow checks.
Wrap(n) == n % (U8Max + 1)

\* In a build with overflow checks (a debug build) the bound check of
\* get_ship_position panics when head + length or length - 1 leaves
\* 0 .. U8Max.
get_ship_position_overflows(p, head, direction, length) ==
  CASE direction = "North" -> head[2] + length > U8Max
    [] direction = "East" -> length - 1 < 0
    [] direction = "South" -> length - 1 < 0
    [] direction = "West" -> head[1] + length > U8Max

\* get_ship_position in a build without overflow checks (a release build).
get_ship_position(p, head, direction, length) ==
  LET valid == CASE direction = "North" -> Wrap(head[2] + length) <= p.grid_size[2]
                 [] direction = "East" -> head[1] >= Wrap(length - 1)
                 [] direction = "South" -> head[2] >= Wrap(length - 1)
                 [] direction = "West" -> Wrap(head[1] + length) <= p.grid_size[1]
  IN  IF valid
      THEN Some([i \in 1 .. length |->
                  CASE direction = "North" -> <<head[1], Wrap(head[2] + (i - 1))>>
                    [] direction = "East" -> <<Wrap(head[1] - (i - 1)), head[2]>>
                    [] direction = "South" -> <<head[1], Wrap(head[2] - (i - 1))>>
                    [] direction = "West" -> <<Wrap(head[1] + (i - 1)), head[2]>>])
      ELSE None

Player_select_space(p, pos) ==
  LET space_index_ == space_index(p, pos)
      ship_hit == \E i \in 1 .. Len(p.ships) : Contains(p.ships[i].position, pos)
  IN  IF space_index_ \notin DOMAIN p.spaces THEN [ret |-> "panic", p |-> p]
      ELSE LET r == set_checked(p.spaces[space_index_], ship_hit)
           IN  IF r.ret = "err" THEN [ret |-> "err", p |-> p]
               ELSE [ret |-> "ok",
                     p |-> [p EXCEPT !.spaces[space_index_] = r.v]]

\* Iterator::all over the cells of a ship stops at the first cell that is
\* not hit; a cell whose index is outside the spaces vector, when reached,
\* makes space() unwrap None.
all_cells_hit(p, cells) ==
  LET stop(c) == ~space_in_range(p, c) \/ ~is_hit(space(p, c))
      k == FirstIndex([i \in 1 .. Len(cells) |-> stop(cells[i])])
  IN  IF k = 0 THEN "true"
      ELSE IF ~space_in_range(p, cells[k]) THEN "panic"
      ELSE "false"

\* Result<bool>: v is the bool of Ok.
sink_ship_if_all_hit(p, pos) ==
  LET has(s) == Contains(s.position, pos)
      index == FirstIndex([i \in 1 .. Len(p.ships) |-> has(p.ships[i])])
  IN  IF index = 0 THEN [ret |-> "err", v |-> FALSE, p |-> p]
      ELSE LET sunk == all_cells_hit(p, p.ships[index].position)
           IN  IF sunk = "panic" THEN [ret |-> "panic", v |-> FALSE, p |-> p]
               ELSE IF sunk = "false" THEN [ret |-> "ok", v |-> FALSE, p |-> p]
               ELSE LET r == set_sunk(p.ships[index])
                    IN  IF r.ret = "err" THEN [ret |-> "err", v |-> FALSE, p |-> p]
                        ELSE [ret |-> "ok", v |-> TRUE,
                              p |-> [p EXCEPT !.ships[index] = r.v]]

all_ships_sunk(p) == \A i \in 1 .. Len(p.ships) : is_sunk(p.ships[i])

\* add_ship that puts the new ship in front of the ships vector.
add_ship_front(p, head, direction, length, placement) ==
  IF Len(p.ships) = p.capacity THEN [ret |-> "err", p |-> p]
  ELSE LET pos == get_ship_position(p, head, direction, length)
       IN  IF ~pos.some THEN [ret |-> "err", p |-> p]
           ELSE IF ~placement /\ ~valid_ship_position(p, pos.v)
                THEN [ret |-> "err", p |-> p]
           ELSE LET s == Ship_new(pos.v)
                IN  IF s.ret # "ok" THEN [ret |-> s.ret, p |-> p]
                    ELSE LET ship == IF placement THEN s.v ELSE set_active(s.v).v
                         IN  [ret |-> "ok",
                              p |-> [p EXCEPT !.ships = <<ship>> \o @]]

add_ship(p, head, direction, length, placement) ==
  IF Len(p.ships) = p.capacity THEN [ret |-> "err", p |-> p]
  ELSE LET pos == get_ship_position(p, head, direction, length)
       IN  IF ~pos.some THEN [ret |-> "err", p |-> p]
           ELSE IF ~placement /\ ~valid_ship_position(p, pos.v)
                THEN [ret |-> "err", p |-> p]
           ELSE LET s == Ship_new(pos.v)
                IN  IF s.ret # "ok" THEN [ret |-> s.ret, p |-> p]
                    ELSE LET ship == IF placement THEN s.v ELSE set_active(s.v).v
                         IN  [ret |-> "ok",
                              p |-> [p EXCEPT !.ships = Append(@, ship)]]

Min(a, b) == IF a < b THEN a ELSE b
Max(a, b) == IF a > b THEN a ELSE b

\* ships.len() - 1 on an empty vector underflows (a panic in a debug build)
\* or wraps to an index that is out of range (a panic in a release build).
move_placement_ship(p, direction) ==
  IF Len(p.ships) = 0 THEN [ret |-> "panic", p |-> p]
  ELSE
    LET index == Len(p.ships)
        old_head == p.ships[index].position[1]
        new_head == movement(p, old_head, direction)
    IN  IF ~new_head.some THEN [ret |-> "err", p |-> p]
        ELSE LET ship_pos == get_ship_position(p, new_head.v, p.ships[index].dir,
                                               Len(p.ships[index].position))
             IN  IF ~ship_pos.some THEN [ret |-> "err", p |-> p]
                 ELSE LET r == set_pos(p.ships[index], ship_pos.v)
                      IN  IF r.ret = "err" THEN [ret |-> "err", p |-> p]
                          ELSE [ret |-> "ok", p |-> [p EXCEPT !.ships[index] = r.v]]

\* place_placement_ship without the valid_ship_position test.
place_placement_ship_unchecked(p) ==
  IF Len(p.ships) = 0 THEN [ret |-> "panic", p |-> p]
  ELSE
    LET index == Len(p.ships)
        r == set_active(p.ships[index])
    IN  IF r.ret = "err" THEN [ret |-> "err", p |-> p]
        ELSE [ret |-> "ok", p |-> [p EXCEPT !.ships[index] = r.v]]

place_placement_ship(p) ==
  IF Len(p.ships) = 0 THEN [ret |-> "panic", p |-> p]
  ELSE
    LET index == Len(p.ships)
    IN  IF ~valid_ship_position(p, p.ships[index].position)
        THEN [ret |-> "err", p |-> p]
        ELSE LET r == set_active(p.ships[index])
             IN  IF r.ret = "err" THEN [ret |-> "err", p |-> p]
                 ELSE [ret |-> "ok", p |-> [p EXCEPT !.ships[index] = r.v]]

\* grid_size - ship_len is a u8 subtraction.  When ship_len exceeds the grid
\* dimension a debug build panics on it; a release build wraps it to a value
\* above every coordinate, min() keeps the old head, get_ship_position() is
\* None because the ship is longer than the grid, and unwrap() panics.
rotate_placement_ship(p) ==
  IF Len(p.ships) = 0 THEN [ret |-> "panic", p |-> p]
  ELSE
    LET index == Len(p.ships)
        ship_len == Len(p.ships[index].position)
        dir == rotated(p.ships[index].dir)
        old_head == p.ships[index].position[1]
        underflow == \/ dir = "North" /\ ship_len > p.grid_size[2]
                     \/ dir = "West" /\ ship_len > p.grid_size[1]
        new_head ==
          CASE dir = "North" -> <<old_head[1], Min(old_head[2], p.grid_size[2] - ship_len)>>
            [] dir = "East" -> <<Max(old_head[1], ship_len - 1), old_head[2]>>
            [] dir = "South" -> <<old_head[1], Max(old_head[2], ship_len - 1)>>
            [] dir = "West" -> <<Min(old_head[1], p.grid_size[1] - ship_len), old_head[2]>>
    IN  IF underflow THEN [ret |-> "panic", p |-> p]
        ELSE LET ship_pos == get_ship_position(p, new_head, dir, ship_len)
             IN  IF ~ship_pos.some THEN [ret |-> "panic", p |-> p]
                 ELSE LET r == set_pos(p.ships[index], ship_pos.v)
                      IN  IF r.ret = "err" THEN [ret |-> "err", p |-> p]
                          ELSE [ret |-> "ok", p |-> [p EXCEPT !.ships[index] = r.v]]

\* Result<&mut Ship>: "ok" when the last ship is a placement ship.
placement_ship_mut(p) ==
  IF Len(p.ships) = 0 THEN "err"
  ELSE IF ~is_placement(p.ships[Len(p.ships)]) THEN "err"
  ELSE "ok"

\* The position of the n-th space of the spaces vector: space_index is its
\* inverse.
space_pos(p, n) == <<n \div p.grid_size[1], n % p.grid_size[1]>>

\* Direction::all().
Direction_all == <<"North", "East", "South", "West">>

\* Iterator::find over the ships: the first ship with pos among its cells.
Player_ship(p, pos) ==
  LET i == FirstIndex([k \in 1 .. Len(p.ships) |-> Contains(p.ships[k].position, pos)])
  IN  IF i = 0 THEN None ELSE Some(p.ships[i])

\* The while loop of find_unchecked_space: hit spaces are walked over, the
\* first space that is not hit ends the loop, with None when it is checked.
RECURSIVE find_unchecked_walk(_, _, _)
find_unchecked_walk(p, check_pos, direction) ==
  IF ~check_pos.some THEN None
  ELSE LET next_space == space(p, check_pos.v)
       IN  IF is_hit(next_space)
           THEN find_unchecked_walk(p, movement(p, check_pos.v, direction), direction)
           ELSE IF ~is_unchecked(next_space) THEN None
           ELSE check_pos

\* find_unchecked_space without the walk: the neighbouring space in the
\* direction, whatever its state.
find_unchecked_space_neighbour(p, pos, direction, check_for_line) ==
  movement(p, pos, direction)

find_unchecked_space(p, pos, direction, check_for_line) ==
  LET check_pos == find_unchecked_walk(p, movement(p, pos, direction), direction)
  IN  IF check_for_line /\ check_pos.some
      THEN LET prev_pos == movement(p, check_pos.v, opposite(direction)).v
           IN  IF prev_pos = pos THEN None ELSE check_pos
      ELSE check_pos

\* Iterator::filter over the spaces vector: the positions of the spaces whose
\* test is TRUE, in the order of the vector. tests[n + 1] is the test of the
\* n-th space.
RECURSIVE filter_spaces(_, _)
filter_spaces(p, tests) ==
  IF tests = <<>> THEN <<>>
  ELSE LET front == filter_spaces(p, SubSeq(tests, 1, Len(tests) - 1))
       IN  IF tests[Len(tests)]
           THEN Append(front, space_pos(p, Len(tests) - 1))
           ELSE front

\* The first loop of suggested_checks over the pairs of a hit space and a
\* direction: the unchecked end of a line of hits is pushed once.
RECURSIVE line_checks(_, _, _)
line_checks(p, pairs, select) ==
  IF pairs = <<>> THEN select
  ELSE LET unchecked == find_unchecked_space(p, Head(pairs)[1], Head(pairs)[2], TRUE)
       IN  line_checks(p, Tail(pairs),
                       IF unchecked.some /\ ~Contains(select, unchecked.v)
                       THEN Append(select, unchecked.v)
                       ELSE select)

\* The second loop of suggested_checks: the unchecked spaces found from the
\* first hit space, one direction after the other.
RECURSIVE next_to_checks(_, _, _, _)
next_to_checks(p, pos, directions, select) ==
  IF directions = <<>> THEN select
  ELSE LET unchecked == find_unchecked_space(p, pos, Head(directions), FALSE)
       IN  next_to_checks(p, pos, Tail(directions),
                          IF unchecked.some THEN Append(select, unchecked.v) ELSE select)

\* The filter of hit_spaces unwraps the ship of s.pos() for every hit space: a hit
\* space that no ship contains is a panic.
suggested_checks(p) ==
  LET count == Cardinality(DOMAIN p.spaces)
      hit(n) == is_hit(p.spaces[n])
  IN  IF \E n \in DOMAIN p.spaces : hit(n) /\ ~Player_ship(p, space_pos(p, n)).some
      THEN [ret |-> "panic", v |-> <<>>]
      ELSE LET hit_spaces ==
                 filter_spaces(p, [k \in 1 .. count |->
                   hit(k - 1) /\ is_active(Player_ship(p, space_pos(p, k - 1)).v)])
               pairs == [k \in 1 .. (4 * Len(hit_spaces)) |->
                          <<hit_spaces[((k - 1) \div 4) + 1], Direction_all[((k - 1) % 4) + 1]>>]
               line == line_checks(p, pairs, <<>>)
               next_to == IF Len(hit_spaces) > 0 /\ line = <<>>
                          THEN next_to_checks(p, hit_spaces[1], Direction_all, <<>>)
                          ELSE line
               select == IF next_to = <<>>
                         THEN filter_spaces(p, [k \in 1 .. count |-> is_unchecked(p.spaces[k - 1])])
                         ELSE next_to
           IN  [ret |-> "ok", v |-> select]

set_grid_cursor(p, pos) ==
  IF space_index(p, pos) < Cardinality(DOMAIN p.spaces)
  THEN [ret |-> "ok", p |-> [p EXCEPT !.grid_cursor = pos]]
  ELSE [ret |-> "err", p |-> p]

move_grid_cursor(p, direction) ==
  LET new_cursor == movement(p, p.grid_cursor, direction)
  IN  IF new_cursor.some
      THEN set_grid_cursor(p, new_cursor.v)
      ELSE [ret |-> "err", p |-> p]

\* Stages a ship of the given length facing West from (0, 0).
add_placement_ship(p, length) == add_ship(p, <<0, 0>>, "West", length, TRUE)

---------------------------------------------------------------------------
(* Game: the record [state, turn, players]. *)

\* not_turn without the + 1: the index of the active player.
Game_not_turn_active(g) == g.turn % 2

Game_not_turn(g) == (g.turn + 1) % 2

\* Option<usize>: the winner, or "None".
Game_get_winner(g) == IF g.state = "Complete" THEN g.turn ELSE "None"

Game_active_player_placed_all_ships(g) ==
  LET ships == g.players[g.turn].ships
  IN  Len(ships) = Len(settings.ships) /\ ~is_placement(ships[Len(ships)])

\* set_state_active that leaves the turn where it is.
Game_set_state_active_keep_turn(g) ==
  IF g.state # "Placement"
  THEN [ret |-> "err", g |-> g]
  ELSE [ret |-> "ok", g |-> [g EXCEPT !.state = "Active"]]

Game_set_state_active(g) ==
  IF g.state # "Placement"
  THEN [ret |-> "err", g |-> g]
  ELSE [ret |-> "ok", g |-> [g EXCEPT !.state = "Active", !.turn = 0]]

\* switch_active_player that always hands the turn to player 0.
Game_switch_active_player_to_first(g) ==
  [ret |-> "ok", g |-> [g EXCEPT !.turn = 0]]

Game_switch_active_player(g) ==
  [ret |-> "ok", g |-> [g EXCEPT !.turn = Game_not_turn(g)]]

\* place_ship staging the next ship with the length of the ship just placed.
Game_place_ship_same_length(g) ==
  IF g.state # "Placement" THEN [ret |-> "err", g |-> g]
  ELSE LET player == g.players[g.turn]
           ship_count == Len(player.ships)
           placed == place_placement_ship(player)
       IN  IF placed.ret # "ok" THEN [ret |-> placed.ret, g |-> g]
           ELSE IF ship_count < Len(settings.ships)
           THEN LET added == add_placement_ship(placed.p, settings.ships[ship_count])
                IN  [ret |-> IF added.ret = "panic" THEN "panic" ELSE "ok",
                     g |-> [g EXCEPT !.players[g.turn] = added.p]]
           ELSE [ret |-> "ok", g |-> [g EXCEPT !.players[g.turn] = placed.p]]

\* The value add_placement_ship returns is dropped.
Game_place_ship(g) ==
  IF g.state # "Placement" THEN [ret |-> "err", g |-> g]
  ELSE LET player == g.players[g.turn]
           ship_count == Len(player.ships)
           placed == place_placement_ship(player)
       IN  IF placed.ret # "ok" THEN [ret |-> placed.ret, g |-> g]
           ELSE IF ship_count < Len(settings.ships)
           THEN LET added == add_placement_ship(placed.p, settings.ships[ship_count + 1])
                IN  [ret |-> IF added.ret = "panic" THEN "panic" ELSE "ok",
                     g |-> [g EXCEPT !.players[g.turn] = added.p]]
           ELSE [ret |-> "ok", g |-> [g EXCEPT !.players[g.turn] = placed.p]]

\* move_ship without the test of the phase.
Game_move_ship_any_phase(g, direction) ==
  LET r == move_placement_ship(g.players[g.turn], direction)
  IN  [ret |-> IF r.ret = "panic" THEN "panic" ELSE "ok",
       g |-> [g EXCEPT !.players[g.turn] = r.p]]

\* The Result of move_placement_ship is dropped: Ok(()) whatever it was.
Game_move_ship(g, direction) ==
  IF g.state # "Placement" THEN [ret |-> "err", g |-> g]
  ELSE LET r == move_placement_ship(g.players[g.turn], direction)
       IN  [ret |-> IF r.ret = "panic" THEN "panic" ELSE "ok",
            g |-> [g EXCEPT !.players[g.turn] = r.p]]

\* The Result of rotate_placement_ship is dropped as well.
Game_rotate_ship(g) ==
  IF g.state # "Placement" THEN [ret |-> "err", g |-> g]
  ELSE LET r == rotate_placement_ship(g.players[g.turn])
       IN  [ret |-> IF r.ret = "panic" THEN "panic" ELSE "ok",
            g |-> [g EXCEPT !.players[g.turn] = r.p]]

Game_set_placement_ship(g, pos) ==
  IF g.state # "Placement" THEN [ret |-> "err", g |-> g]
  ELSE IF placement_ship_mut(g.players[g.turn]) = "err" THEN [ret |-> "err", g |-> g]
  ELSE LET index == Len(g.players[g.turn].ships)
           r == set_pos(g.players[g.turn].ships[index], pos)
       IN  [ret |-> r.ret, g |-> [g EXCEPT !.players[g.turn].ships[index] = r.v]]

\* When sink_ship_if_all_hit panics the space has already been checked.
Game_select_space(g, pos) ==
  LET nt == Game_not_turn(g)
      selected == Player_select_space(g.players[nt], pos)
  IN  IF selected.ret # "ok" THEN [ret |-> selected.ret, g |-> g]
      ELSE LET sunk == sink_ship_if_all_hit(selected.p, pos)
           IN  IF sunk.ret = "panic"
               THEN [ret |-> "panic", g |-> [g EXCEPT !.players[nt] = selected.p]]
               ELSE IF sunk.ret = "ok" /\ sunk.v
               THEN [ret |-> "ok",
                     g |-> [g EXCEPT !.players[nt] = sunk.p,
                                     !.state = IF all_ships_sunk(sunk.p)
                                               THEN "Complete" ELSE "Active"]]
               ELSE [ret |-> "ok", g |-> [g EXCEPT !.players[nt] = sunk.p]]

\* The shuffled list's first element is any element of the list: v is the set
\* of positions the call can return. positions[0] of an empty list is an
\* index out of range.
Game_suggested_check(g) ==
  LET positions == suggested_checks(g.players[Game_not_turn(g)])
  IN  IF positions.ret = "panic" \/ positions.v = <<>>
      THEN [ret |-> "panic", v |-> {}]
      ELSE [ret |-> "ok", v |-> {positions.v[i] : i \in 1 .. Len(positions.v)}]

\* The random heads and directions cpu_place_ships samples.
CpuHeads == {<<0, 0>>, <<0, 2>>}
CpuDirections == {"West"}

\* The players cpu_place_ships can leave: for each configured length in
\* turn, a sampled head and direction that add_ship accepts as an active
\* ship.
RECURSIVE cpu_place_from(_, _)
cpu_place_from(p, k) ==
  IF k > Len(settings.ships) THEN {p}
  ELSE UNION {cpu_place_from(add_ship(p, hd[1], hd[2], settings.ships[k], FALSE).p, k + 1) :
                hd \in {c \in CpuHeads \X CpuDirections :
                   add_ship(p, c[1], c[2], settings.ships[k], FALSE).ret = "ok"}}

cpu_place_ships(p) == cpu_place_from(p, 1)

\* Game::new: player 0 is human and gets a placement ship of the first
\* length, player 1 is computer-controlled and places all its ships.
Game_new ==
  {[state |-> "Placement",
    turn |-> 0,
    players |-> [i \in 0 .. 1 |->
                  IF i = 0
                  THEN add_placement_ship(
                         Player_new(grid_size, Len(settings.ships), FALSE),
                         settings.ships[1]).p
                  ELSE cpu]] :
     cpu \in cpu_place_ships(Player_new(grid_size, Len(settings.ships), TRUE))}

---------------------------------------------------------------------------
(* The state machine: one action per public operation of Game. *)

G == [state |-> state, turn |-> turn, players |-> players]

\* No direct call has been made.
NoCall == [op |-> "none", args |-> <<>>, ret |-> <<>>]

\* App::new: the turn is open and both timers are at zero. The timers count
\* updates: an update adds dt, taken as half a second.
App_new == [turn_active |-> TRUE, turn_end_timer |-> 0, cpu_turn_timer |-> 0]

Init == \E g \in Game_new :
  /\ state = g.state
  /\ turn = g.turn
  /\ players = g.players
  /\ call = NoCall
  /\ app = App_new

\* The operation returns: a panic ends the process.
Returns(r) == r.ret # "panic"

\* The game the operation leaves.
Becomes(g) ==
  /\ state' = g.state
  /\ turn' = g.turn
  /\ players' = g.players
  /\ UNCHANGED <<call, app>>

set_state_active ==
  /\ Returns(Game_set_state_active(G))
  /\ Becomes(Game_set_state_active(G).g)

switch_active_player ==
  /\ Returns(Game_switch_active_player(G))
  /\ Becomes(Game_switch_active_player(G).g)

place_ship ==
  /\ Returns(Game_place_ship(G))
  /\ Becomes(Game_place_ship(G).g)

move_ship(direction) ==
  /\ Returns(Game_move_ship(G, direction))
  /\ Becomes(Game_move_ship(G, direction).g)

rotate_ship ==
  /\ Returns(Game_rotate_ship(G))
  /\ Becomes(Game_rotate_ship(G).g)

set_placement_ship(pos) ==
  /\ Returns(Game_set_placement_ship(G, pos))
  /\ Becomes(Game_set_placement_ship(G, pos).g)

\* The number of checked cells over both grids.
CheckedCount ==
  Cardinality({ic \in (0 .. 1) \X (0 .. (GridW * GridH - 1)) :
                 ~is_unchecked(players[ic[1]].spaces[ic[2]])})

select_space(pos) ==
  /\ CheckedCount < MaxShots \/ ~is_unchecked(space(players[Game_not_turn(G)], pos))
  /\ Returns(Game_select_space(G, pos))
  /\ Becomes(Game_select_space(G, pos).g)

\* The cells select_space is called with: the first and the last row of the
\* grid, where Game::new leaves the ships.
SelectCells == {c \in Cells : c[2] \in {0, GridH - 1}}

\* A match: cells are selected and turns switched, the staged ship is
\* committed where Game::new put it.
Next ==
  \/ \E pos \in SelectCells : select_space(pos)
  \/ switch_active_player
  \/ set_state_active
  \/ place_ship

Spec == Init /\ [][Next]_vars

\* The runs the presentation layer calls set_placement_ship with
\* (mouse_cursor_movement): the cells get_ship_position gives for the cell
\* under the mouse, the direction of the active player's last ship and the
\* length configured for it.
GridRuns ==
  LET player == players[turn]
      ship_dir == player.ships[Len(player.ships)].dir
      ship_len == settings.ships[Len(player.ships)]
  IN  {get_ship_position(player, grid_pos, ship_dir, ship_len).v :
         grid_pos \in {c \in Cells : get_ship_position(player, c, ship_dir, ship_len).some}}

\* Ship placement by both players: the staged ship is moved, rotated, set
\* under the mouse and committed, and the turn is switched.
NextPlacement ==
  \/ \E direction \in Directions : move_ship(direction)
  \/ rotate_ship
  \/ \E pos \in GridRuns : set_placement_ship(pos)
  \/ place_ship
  \/ switch_active_player
  \/ set_state_active

SpecPlacement == Init /\ [][NextPlacement]_vars

\* Every sequence of at most MaxSetLen cells with coordinates in
\* 0 .. MaxCoord: runs of any length, broken runs, cells outside the grid.
SetCells == (0 .. MaxCoord) \X (0 .. MaxCoord)
SetPositions == UNION {[1 .. n -> SetCells] : n \in 0 .. MaxSetLen}

\* Staging by player 0: set_placement_ship is called with any position.
NextStaging ==
  \/ \E pos \in SetPositions : set_placement_ship(pos)
  \/ rotate_ship
  \/ place_ship
  \/ set_state_active

SpecStaging == Init /\ [][NextStaging]_vars

\* The turn of the computer-controlled player: a cell of the other player's
\* grid is selected.
cpu_select_space(pos) ==
  /\ players[turn].is_cpu
  /\ \/ Cardinality({n \in DOMAIN players[Game_not_turn(G)].spaces :
                       ~is_unchecked(players[Game_not_turn(G)].spaces[n])}) < MaxHunt
     \/ ~is_unchecked(space(players[Game_not_turn(G)], pos))
  /\ Returns(Game_select_space(G, pos))
  /\ Becomes(Game_select_space(G, pos).g)

\* The grid the computer-controlled player checks: every cell of it is
\* selected, in any order, while its owner moves the staged ship down and
\* places it.
NextHunt ==
  \/ \E pos \in Cells : cpu_select_space(pos)
  \/ switch_active_player
  \/ move_ship("South")
  \/ place_ship

SpecHunt == Init /\ [][NextHunt]_vars

\* The computer-controlled player selects the first Unchecked cell of the
\* spaces vector of the other player.
cpu_select_first_unchecked ==
  /\ players[turn].is_cpu
  /\ \E pos \in Cells :
       /\ is_unchecked(space(players[Game_not_turn(G)], pos))
       /\ \A n \in 0 .. (space_index(players[Game_not_turn(G)], pos) - 1) :
            ~is_unchecked(players[Game_not_turn(G)].spaces[n])
       /\ Returns(Game_select_space(G, pos))
       /\ Becomes(Game_select_space(G, pos).g)

\* A whole grid is checked, cell after cell in the order of the spaces
\* vector, while turns are switched, ships are placed and the game is
\* started.
NextSweep ==
  \/ cpu_select_first_unchecked
  \/ switch_active_player
  \/ place_ship
  \/ set_state_active

SpecSweep == Init /\ [][NextSweep]_vars

\* The Result of move_grid_cursor and set_grid_cursor is dropped by the
\* presentation layer, which calls them on active_player_mut().
active_player_move_grid_cursor(direction) ==
  /\ players' = [players EXCEPT ![turn] = move_grid_cursor(@, direction).p]
  /\ UNCHANGED <<state, turn, call, app>>

active_player_set_grid_cursor(pos) ==
  /\ players' = [players EXCEPT ![turn] = set_grid_cursor(@, pos).p]
  /\ UNCHANGED <<state, turn, call, app>>

\* The grid cursors of both players: moved in every direction and set to
\* every position with coordinates in 0 .. MaxCoord.
NextCursor ==
  \/ \E direction \in Directions : active_player_move_grid_cursor(direction)
  \/ \E pos \in SetCells : active_player_set_grid_cursor(pos)
  \/ switch_active_player

SpecCursor == Init /\ [][NextCursor]_vars

\* A direct call leaves the game as it is.  One direct call is made in a
\* behaviour: what an operation returns does not depend on earlier calls.
call_from_positions(pos1, pos2) ==
  /\ call.op = "none"
  /\ call' = [op |-> "from_positions", args |-> <<pos1, pos2>>,
              ret |-> [dir |-> from_positions(pos1, pos2)]]
  /\ UNCHANGED <<state, turn, players, app>>

call_Ship_new(pos) ==
  /\ call.op = "none"
  /\ call' = [op |-> "Ship_new", args |-> <<pos>>, ret |-> Ship_new(pos)]
  /\ UNCHANGED <<state, turn, players, app>>

\* set_pos is called on the last ship of a player.
call_set_pos(i, pos) ==
  /\ call.op = "none"
  /\ call' = [op |-> "set_pos",
              args |-> <<players[i].ships[Len(players[i].ships)], pos>>,
              ret |-> set_pos(players[i].ships[Len(players[i].ships)], pos)]
  /\ UNCHANGED <<state, turn, players, app>>

\* get_ship_position is called on player 0 with a head inside the grid, in a
\* build with or without overflow checks.
call_get_ship_position(head, direction, length, overflow_checks) ==
  /\ call.op = "none"
  /\ call' = [op |-> "get_ship_position",
              args |-> <<head, direction, length>>,
              ret |-> IF overflow_checks
                         /\ get_ship_position_overflows(players[0], head, direction, length)
                      THEN [ret |-> "panic", v |-> None]
                      ELSE [ret |-> "ok",
                            v |-> get_ship_position(players[0], head, direction, length)]]
  /\ UNCHANGED <<state, turn, players, app>>

\* select_space is called on a new player with a grid of the given size and
\* a position inside that grid.
call_select_space(gs, pos) ==
  /\ call.op = "none"
  /\ valid_space(Player_new(gs, 0, FALSE), pos)
  /\ call' = [op |-> "select_space", args |-> <<gs, pos>>,
              ret |-> Player_select_space(Player_new(gs, 0, FALSE), pos)]
  /\ UNCHANGED <<state, turn, players, app>>

\* The grid sizes of the direct calls: square and non-square grids up to
\* the size of the game's grid.
CallGrids == (1 .. GridW) \X (1 .. GridH)

\* The lengths get_ship_position is called with: the smallest and the
\* largest lengths a u8 holds.
CallLengths == (1 .. MaxCallLen + 1) \cup ((U8Max - MaxCallLen + 1) .. U8Max)

\* The positions of the direct calls: the sequences of at most MaxCallLen
\* cells whose coordinates are in 0 .. MaxCoord.
CallPositions ==
  UNION {[1 .. n -> SetCells] : n \in 0 .. MaxCallLen}

\* Direct calls of the operations of Direction, Ship and Player, with
\* positions whose coordinates are in 0 .. MaxCoord.
NextCalls ==
  \/ \E pos1 \in SetCells, pos2 \in SetCells : call_from_positions(pos1, pos2)
  \/ \E pos \in CallPositions : call_Ship_new(pos)
  \/ \E i \in 0 .. 1, pos \in CallPositions : call_set_pos(i, pos)
  \/ \E gs \in CallGrids, pos \in Cells : call_select_space(gs, pos)
  \/ \E head \in Cells, direction \in Directions, length \in CallLengths,
        overflow_checks \in BOOLEAN :
       call_get_ship_position(head, direction, length, overflow_checks)

SpecCalls == Init /\ [][NextCalls]_vars

---------------------------------------------------------------------------
(* App: the event handlers of the presentation layer, each an operator    *)
(* from the game g and the fields a of App to [ret, g, a].                *)

\* The end-of-turn delay (1.5 s) and the delay before the computer's move
\* (1.0 s), counted in updates of half a second.
EndOfTurnDelay == 3
CpuTurnDelay == 2

Game_is_player_placing_ship(g) ==
  g.state = "Placement" /\ ~g.players[g.turn].is_cpu

Game_is_player_selecting_space(g) ==
  g.state = "Active" /\ ~g.players[g.turn].is_cpu

\* An Err of place_ship is ignored; a selection that succeeds closes the
\* turn.
App_primary_action(g, a, grid_pos) ==
  LET placed == IF Game_is_player_placing_ship(g)
                THEN Game_place_ship(g)
                ELSE [ret |-> "ok", g |-> g]
      selected == IF Game_is_player_selecting_space(placed.g)
                  THEN Game_select_space(placed.g, grid_pos)
                  ELSE [ret |-> "err", g |-> placed.g]
  IN  IF placed.ret = "panic" \/ selected.ret = "panic"
      THEN [ret |-> "panic", g |-> g, a |-> a]
      ELSE IF selected.ret = "ok"
      THEN [ret |-> "ok", g |-> selected.g, a |-> [a EXCEPT !.turn_active = FALSE]]
      ELSE [ret |-> "ok", g |-> placed.g, a |-> a]

\* The staged ship moves during placement; the grid cursor moves while a
\* human player's turn is open.
App_movement(g, a, direction) ==
  LET moved == IF Game_is_player_placing_ship(g)
               THEN Game_move_ship(g, direction)
               ELSE [ret |-> "ok", g |-> g]
  IN  IF moved.ret = "panic"
      THEN [ret |-> "panic", g |-> g, a |-> a]
      ELSE IF Game_is_player_selecting_space(moved.g) /\ a.turn_active
      THEN [ret |-> "ok",
            g |-> [moved.g EXCEPT !.players[moved.g.turn] =
                                    move_grid_cursor(@, direction).p],
            a |-> a]
      ELSE [ret |-> "ok", g |-> moved.g, a |-> a]

\* The first half of the else branch of update: the end-of-turn delay.
App_end_of_turn(g, a) ==
  IF a.turn_active THEN [g |-> g, a |-> a]
  ELSE IF a.turn_end_timer < EndOfTurnDelay
  THEN [g |-> g, a |-> [a EXCEPT !.turn_end_timer = @ + 1]]
  ELSE IF g.state = "Active"
  THEN [g |-> Game_switch_active_player(g).g,
        a |-> [a EXCEPT !.turn_end_timer = 0, !.turn_active = TRUE]]
  ELSE [g |-> g, a |-> a]

\* The second half: the computer's move, for each position suggested_check
\* can return.  Both expect calls panic on an Err.
App_cpu_turn(g, a) ==
  IF ~(a.turn_active /\ g.players[g.turn].is_cpu)
  THEN {[ret |-> "ok", g |-> g, a |-> a]}
  ELSE IF a.cpu_turn_timer + 1 < CpuTurnDelay
  THEN {[ret |-> "ok", g |-> g, a |-> [a EXCEPT !.cpu_turn_timer = @ + 1]]}
  ELSE IF Game_suggested_check(g).ret = "panic"
  THEN {[ret |-> "panic", g |-> g, a |-> a]}
  ELSE {[ret |-> IF Game_select_space(g, cpu_space).ret = "ok" THEN "ok" ELSE "panic",
         g |-> Game_select_space(g, cpu_space).g,
         a |-> [a EXCEPT !.cpu_turn_timer = 0, !.turn_active = FALSE]] :
          cpu_space \in Game_suggested_check(g).v}

\* The outcomes of one update.
App_update(g, a) ==
  IF g.state = "Placement" /\ Game_active_player_placed_all_ships(g)
  THEN LET switched == Game_switch_active_player(g).g
       IN  IF Game_active_player_placed_all_ships(switched)
           THEN {[ret |-> IF Game_set_state_active(switched).ret = "ok"
                          THEN "ok" ELSE "panic",
                  g |-> Game_set_state_active(switched).g, a |-> a]}
           ELSE {[ret |-> "ok", g |-> switched, a |-> a]}
  ELSE UNION {App_cpu_turn(e.g, e.a) : e \in {App_end_of_turn(g, a)}}

\* The number of checked cells over both grids of g.
Shots(g) ==
  Cardinality({ic \in (0 .. 1) \X (0 .. (GridW * GridH - 1)) :
                 ~is_unchecked(g.players[ic[1]].spaces[ic[2]])})

update ==
  \E r \in App_update(G, app) :
    /\ Returns(r)
    /\ Shots(r.g) <= MaxAppShots
    /\ state' = r.g.state
    /\ turn' = r.g.turn
    /\ players' = r.g.players
    /\ app' = r.a
    /\ UNCHANGED call

\* A click on the cell of the grid under the mouse cursor.
mouse_left_click(grid_pos) ==
  \E r \in {App_primary_action(G, app, grid_pos)} :
    /\ Returns(r)
    /\ Shots(r.g) <= MaxAppShots
    /\ state' = r.g.state
    /\ turn' = r.g.turn
    /\ players' = r.g.players
    /\ app' = r.a
    /\ UNCHANGED call

\* The primary button acts on the cell under the active player's cursor.
button_primary ==
  \E r \in {App_primary_action(G, app, players[turn].grid_cursor)} :
    /\ Returns(r)
    /\ Shots(r.g) <= MaxAppShots
    /\ state' = r.g.state
    /\ turn' = r.g.turn
    /\ players' = r.g.players
    /\ app' = r.a
    /\ UNCHANGED call

\* button_left, button_right, button_up and button_down.
button_direction(direction) ==
  \E r \in {App_movement(G, app, direction)} :
    /\ Returns(r)
    /\ state' = r.g.state
    /\ turn' = r.g.turn
    /\ players' = r.g.players
    /\ app' = r.a
    /\ UNCHANGED call

\* The event loop: updates, the primary button, clicks on the cells of the
\* grid and the down button.
NextApp ==
  \/ update
  \/ button_primary
  \/ \E grid_pos \in Cells : mouse_left_click(grid_pos)
  \/ \E direction \in {"South"} : button_direction(direction)

SpecApp == Init /\ [][NextApp]_vars

\* A turn of the match: the active player selects the first Unchecked cell
\* of the other grid, in the order of its spaces vector, and the selection
\* succeeds, which closes the turn.
take_turn(pos) ==
  \E r \in {Game_select_space(G, pos)} :
    /\ state = "Active"
    /\ app.turn_active
    /\ is_unchecked(space(players[Game_not_turn(G)], pos))
    /\ \A n \in 0 .. (space_index(players[Game_not_turn(G)], pos) - 1) :
         ~is_unchecked(players[Game_not_turn(G)].spaces[n])
    /\ r.ret = "ok"
    /\ state' = r.g.state
    /\ turn' = r.g.turn
    /\ players' = r.g.players
    /\ app' = [app EXCEPT !.turn_active = FALSE]
    /\ UNCHANGED call

\* The end of a closed turn while the game is Active: the turn passes to
\* the other player and opens.
end_turn ==
  /\ ~app.turn_active
  /\ state = "Active"
  /\ state' = Game_switch_active_player(G).g.state
  /\ turn' = Game_switch_active_player(G).g.turn
  /\ players' = Game_switch_active_player(G).g.players
  /\ app' = [app EXCEPT !.turn_end_timer = 0, !.turn_active = TRUE]
  /\ UNCHANGED call

\* switch_active_player called while the ships are placed.
placement_switch_active_player ==
  /\ state = "Placement"
  /\ Returns(Game_switch_active_player(G))
  /\ Becomes(Game_switch_active_player(G).g)

\* A match: ships are moved down, rotated and placed and the turn is
\* switched during placement, the game is started, and from then on the
\* players take turns, one successful selection each.
NextMatch ==
  \/ move_ship("South")
  \/ rotate_ship
  \/ place_ship
  \/ placement_switch_active_player
  \/ set_state_active
  \/ \E pos \in Cells : take_turn(pos)
  \/ end_turn

SpecMatch == Init /\ [][NextMatch]_vars

---------------------------------------------------------------------------
(* Properties *)

Committed(ship) == ~is_placement(ship)

\* Every cell of the ship is Checked(true) on the grid of player i.
AllCellsHit(i, ship) ==
  \A n \in 1 .. Len(ship.position) :
    /\ space_in_range(players[i], ship.position[n])
    /\ is_hit(space(players[i], ship.position[n]))

\* pos is a straight run: every cell is its predecessor moved by the same
\* unit step.
IsRun(pos) ==
  /\ Len(pos) >= 1
  /\ \E step \in {<<0, 1>>, <<0, -1>>, <<1, 0>>, <<-1, 0>>} :
       \A n \in 1 .. (Len(pos) - 1) :
         pos[n + 1] = <<pos[n][1] + step[1], pos[n][2] + step[2]>>

Adjacent(a, b) == Abs(a[1] - b[1]) + Abs(a[2] - b[2]) = 1

\* C1: the phase is Complete if and only if the ships of at least one
\* player are all Sunk.
C1_CompleteIffAllSunk ==
  (state = "Complete") <=> (\E i \in 0 .. 1 : all_ships_sunk(players[i]))

\* C2: there is no winner while the phase is not Complete; the call that
\* makes the phase Complete makes the active player of that call the winner;
\* and from then on the winner is that player, whatever is called.
C2_WinnerRecorded ==
  [][/\ state # "Complete" => Game_get_winner(G) = "None"
     /\ (state # "Complete" /\ state' = "Complete") => Game_get_winner(G)' = turn
     /\ state = "Complete" => Game_get_winner(G)' = Game_get_winner(G)]_vars

\* C3: once the phase is Complete no operation changes it.
C3_CompleteTerminal == [][state = "Complete" => state' = "Complete"]_vars

\* C4: whenever the phase is Active, each player holds the configured
\* number of ships and none of them is a placement ship.
C4_ActiveAfterPlacement ==
  state = "Active" =>
    \A i \in 0 .. 1 :
      /\ Len(players[i].ships) = Len(settings.ships)
      /\ \A k \in 1 .. Len(players[i].ships) : ~is_placement(players[i].ships[k])

\* C5: a ship is Sunk if and only if every cell of its position is
\* Checked(true) on its owner's grid.
C5_SunkIffAllHit ==
  \A i \in 0 .. 1 : \A k \in 1 .. Len(players[i].ships) :
    is_sunk(players[i].ships[k]) <=> AllCellsHit(i, players[i].ships[k])

\* C6: the position of every committed ship is a straight run of cells of
\* the grid whose length is the length configured for its slot.
C6_CommittedShipShape ==
  \A i \in 0 .. 1 : \A k \in 1 .. Len(players[i].ships) :
    Committed(players[i].ships[k]) =>
      /\ IsRun(players[i].ships[k].position)
      /\ \A n \in 1 .. Len(players[i].ships[k].position) :
           players[i].ships[k].position[n] \in Cells
      /\ Len(players[i].ships[k].position) = settings.ships[k]

\* Two different committed ships of player i share a cell.
Overlap(i) ==
  \E k, l \in 1 .. Len(players[i].ships) :
    /\ k # l
    /\ Committed(players[i].ships[k])
    /\ Committed(players[i].ships[l])
    /\ \E n \in 1 .. Len(players[i].ships[k].position) :
         Contains(players[i].ships[l].position, players[i].ships[k].position[n])

\* A cell of one committed ship of player i is orthogonally next to a cell
\* of another.
Touch(i) ==
  \E k, l \in 1 .. Len(players[i].ships) :
    /\ k # l
    /\ Committed(players[i].ships[k])
    /\ Committed(players[i].ships[l])
    /\ \E n \in 1 .. Len(players[i].ships[k].position) :
         \E m \in 1 .. Len(players[i].ships[l].position) :
           Adjacent(players[i].ships[k].position[n], players[i].ships[l].position[m])

\* C7: no two committed ships of the same player share a cell.
C7_NoSharedCell == \A i \in 0 .. 1 : ~Overlap(i)

\* C8: the ships of a computer-controlled player neither overlap nor touch
\* orthogonally; the ships of a human player do not overlap.
C8_CpuShipsApart ==
  \A i \in 0 .. 1 :
    IF players[i].is_cpu THEN ~Overlap(i) /\ ~Touch(i) ELSE ~Overlap(i)

\* C9: the cells and the direction of a committed ship never change, and
\* move_ship, rotate_ship and set_placement_ship return an error when the
\* active player has no placement ship.
C9_CommittedShipFrozen ==
  [][/\ \A i \in 0 .. 1 : \A k \in 1 .. Len(players[i].ships) :
          Committed(players[i].ships[k]) =>
            /\ k <= Len(players'[i].ships)
            /\ players'[i].ships[k].position = players[i].ships[k].position
            /\ players'[i].ships[k].dir = players[i].ships[k].dir
     /\ (state = "Placement" /\ placement_ship_mut(players[turn]) = "err") =>
          /\ \A d \in Directions : Game_move_ship(G, d).ret = "err"
          /\ Game_rotate_ship(G).ret = "err"
          /\ \A pos \in GridRuns : Game_set_placement_ship(G, pos).ret = "err"]_vars

\* The result of every operation the presentation layer can call in the
\* current state with cells of the grid.
Operations ==
  {Game_select_space(G, pos) : pos \in Cells}
    \cup {Game_move_ship(G, d) : d \in Directions}
    \cup {Game_set_placement_ship(G, pos) : pos \in GridRuns}
    \cup {Game_switch_active_player(G), Game_set_state_active(G),
          Game_place_ship(G), Game_rotate_ship(G)}

\* C10: select_space on a cell of the inactive player's grid that is already
\* checked returns an error and leaves the game as it was, and no operation
\* changes a space that is checked.
C10_CheckedCellRejected ==
  /\ \A pos \in Cells :
       ~is_unchecked(space(players[Game_not_turn(G)], pos)) =>
         Game_select_space(G, pos) = [ret |-> "err", g |-> G]
  /\ \A r \in Operations : \A i \in 0 .. 1 : \A n \in DOMAIN players[i].spaces :
       ~is_unchecked(players[i].spaces[n]) =>
         r.g.players[i].spaces[n] = players[i].spaces[n]

\* A checked cell of the inactive player's grid is selected again.
C10_Witness ==
  \E pos \in SelectCells :
    /\ ~is_unchecked(space(players[Game_not_turn(G)], pos))
    /\ Game_select_space(G, pos).ret = "err"

\* C11: Player::select_space on an unchecked cell marks it Checked(true) if
\* and only if a committed (Active or Sunk) ship of the player occupies the
\* cell, and Checked(false) otherwise.
C11_HitIffCommittedShip ==
  \A i \in 0 .. 1 : \A pos \in Cells :
    is_unchecked(space(players[i], pos)) =>
      /\ Player_select_space(players[i], pos).ret = "ok"
      /\ space(Player_select_space(players[i], pos).p, pos)
           = Checked(ship_is_in_space(players[i], pos))

\* C12: Game::select_space acts on the inactive player only: whatever cell it
\* is called with and whatever it returns, the turn and the active player's
\* spaces and ships are as before.
C12_SelectLeavesActivePlayer ==
  \A pos \in SetCells :
    /\ Game_select_space(G, pos).g.turn = turn
    /\ Game_select_space(G, pos).g.players[turn] = players[turn]

\* Cells have been selected on both grids, and a further selection would
\* succeed and change the inactive player.
C12_Witness ==
  /\ \A i \in 0 .. 1 : \E n \in DOMAIN players[i].spaces : ~is_unchecked(players[i].spaces[n])
  /\ \E pos \in SelectCells :
       /\ Game_select_space(G, pos).ret = "ok"
       /\ Game_select_space(G, pos).g.players[Game_not_turn(G)] # players[Game_not_turn(G)]

\* C13: set_checked(hit) on an unchecked space succeeds and leaves
\* Checked(hit); on a checked space it returns an error and leaves the space
\* as it was, checked and with the same hit flag.
C13_CheckedNeverReverts ==
  \A i \in 0 .. 1 : \A n \in DOMAIN players[i].spaces : \A hit \in BOOLEAN :
    IF is_unchecked(players[i].spaces[n])
    THEN /\ set_checked(players[i].spaces[n], hit).ret = "ok"
         /\ set_checked(players[i].spaces[n], hit).v = Checked(hit)
         /\ ~is_unchecked(set_checked(players[i].spaces[n], hit).v)
    ELSE /\ set_checked(players[i].spaces[n], hit).ret = "err"
         /\ ~is_unchecked(set_checked(players[i].spaces[n], hit).v)
         /\ is_hit(set_checked(players[i].spaces[n], hit).v) = is_hit(players[i].spaces[n])

\* A grid holds a hit space and a missed space, and set_checked with the
\* opposite flag is rejected on both.
C13_Witness ==
  \E i \in 0 .. 1 : \E n, m \in DOMAIN players[i].spaces :
    /\ is_hit(players[i].spaces[n])
    /\ is_empty(players[i].spaces[m])
    /\ set_checked(players[i].spaces[n], FALSE).ret = "err"
    /\ set_checked(players[i].spaces[m], TRUE).ret = "err"

\* Placement, Active, Sunk in the order a ship goes through them.
LifecycleRank(ship) ==
  CASE is_placement(ship) -> 0
    [] is_active(ship) -> 1
    [] is_sunk(ship) -> 2

\* C14: set_active succeeds only on a Placement ship and set_sunk only on an
\* Active ship, and otherwise they return an error and leave the ship as it
\* was; no operation takes a ship away or moves its lifecycle backward.
C14_LifecycleForward ==
  /\ \A i \in 0 .. 1 : \A k \in 1 .. Len(players[i].ships) :
       /\ set_active(players[i].ships[k])
            = IF is_placement(players[i].ships[k])
              THEN [ret |-> "ok", v |-> [players[i].ships[k] EXCEPT !.state = "Active"]]
              ELSE [ret |-> "err", v |-> players[i].ships[k]]
       /\ set_sunk(players[i].ships[k])
            = IF is_active(players[i].ships[k])
              THEN [ret |-> "ok", v |-> [players[i].ships[k] EXCEPT !.state = "Sunk"]]
              ELSE [ret |-> "err", v |-> players[i].ships[k]]
  /\ \A r \in Operations : \A i \in 0 .. 1 : \A k \in 1 .. Len(players[i].ships) :
       /\ k <= Len(r.g.players[i].ships)
       /\ LifecycleRank(r.g.players[i].ships[k]) >= LifecycleRank(players[i].ships[k])

\* A player holds a Sunk ship and a Placement ship while the other holds an
\* Active ship, and set_active and set_sunk are rejected on the Sunk ship.
C14_Witness ==
  \E i \in 0 .. 1 : \E k, l \in 1 .. Len(players[i].ships) :
    /\ is_sunk(players[i].ships[k])
    /\ is_placement(players[i].ships[l])
    /\ \E m \in 1 .. Len(players[1 - i].ships) : is_active(players[1 - i].ships[m])
    /\ set_active(players[i].ships[k]).ret = "err"
    /\ set_sunk(players[i].ships[k]).ret = "err"

\* The player holds a staged ship: its last ship is a placement ship.
Staged(p) == Len(p.ships) > 0 /\ is_placement(p.ships[Len(p.ships)])

\* C15: place_placement_ship on a player whose staged ship satisfies
\* valid_ship_position returns Ok and makes that ship Active where it is;
\* otherwise it returns an error and leaves the player, staged ship and
\* number of ships included, as it was, and so does Game::place_ship.
C15_PlaceOrRetry ==
  /\ \A i \in 0 .. 1 :
       Staged(players[i]) =>
         place_placement_ship(players[i])
           = IF valid_ship_position(players[i],
                                    players[i].ships[Len(players[i].ships)].position)
             THEN [ret |-> "ok",
                   p |-> [players[i] EXCEPT !.ships[Len(players[i].ships)].state = "Active"]]
             ELSE [ret |-> "err", p |-> players[i]]
  /\ (/\ state = "Placement"
      /\ Staged(players[turn])
      /\ place_placement_ship(players[turn]).ret = "err")
       => Game_place_ship(G) = [ret |-> "err", g |-> G]

\* After a first ship was committed, the staged ship lies on it and
\* place_ship is rejected.
C15_Witness ==
  /\ state = "Placement"
  /\ Staged(players[turn])
  /\ Len(players[turn].ships) > 1
  /\ ~valid_ship_position(players[turn],
                          players[turn].ships[Len(players[turn].ships)].position)
  /\ Game_place_ship(G).ret = "err"

\* The cell one unit from c in the given direction (North is towards row 0).
Shift(c, d) ==
  CASE d = "North" -> <<c[1], c[2] - 1>>
    [] d = "East" -> <<c[1] + 1, c[2]>>
    [] d = "South" -> <<c[1], c[2] + 1>>
    [] d = "West" -> <<c[1] - 1, c[2]>>

InGrid(c) == c[1] >= 0 /\ c[1] < GridW /\ c[2] >= 0 /\ c[2] < GridH

\* C16: move_placement_ship(d) on a player with a staged ship moves every
\* cell of that ship one unit in direction d and keeps its length and
\* direction when all the moved cells are inside the grid; otherwise it
\* returns an error and leaves the player as it was.
C16_MoveTranslates ==
  \A i \in 0 .. 1 : \A d \in Directions :
    Staged(players[i]) =>
      move_placement_ship(players[i], d)
        = IF \A n \in 1 .. Len(players[i].ships[Len(players[i].ships)].position) :
               InGrid(Shift(players[i].ships[Len(players[i].ships)].position[n], d))
          THEN [ret |-> "ok",
                p |-> [players[i] EXCEPT !.ships[Len(players[i].ships)].position =
                        [n \in 1 .. Len(@) |-> Shift(@[n], d)]]]
          ELSE [ret |-> "err", p |-> players[i]]

\* C17: on a player whose staged ship lies inside the grid and is no longer
\* than either side of the grid, rotate_placement_ship returns Ok, the ship
\* faces the clockwise rotation of its previous direction, has the length it
\* had, and lies inside the grid.
C17_RotateClockwise ==
  \A i \in 0 .. 1 :
    (/\ Staged(players[i])
     /\ \A n \in 1 .. Len(players[i].ships[Len(players[i].ships)].position) :
          InGrid(players[i].ships[Len(players[i].ships)].position[n])
     /\ Len(players[i].ships[Len(players[i].ships)].position) <= GridW
     /\ Len(players[i].ships[Len(players[i].ships)].position) <= GridH)
      => /\ rotate_placement_ship(players[i]).ret = "ok"
         /\ Len(rotate_placement_ship(players[i]).p.ships) = Len(players[i].ships)
         /\ rotate_placement_ship(players[i]).p.ships[Len(players[i].ships)].dir
              = rotated(players[i].ships[Len(players[i].ships)].dir)
         /\ Len(rotate_placement_ship(players[i]).p.ships[Len(players[i].ships)].position)
              = Len(players[i].ships[Len(players[i].ships)].position)
         /\ \A n \in 1 .. Len(players[i].ships[Len(players[i].ships)].position) :
              InGrid(rotate_placement_ship(players[i]).p.ships[Len(players[i].ships)].position[n])

\* C18: while the phase is not Placement, place_ship, move_ship, rotate_ship
\* and set_placement_ship return an error and leave the game as it was,
\* whatever they are called with.
C18_PlacementOnly ==
  state # "Placement" =>
    /\ Game_place_ship(G) = [ret |-> "err", g |-> G]
    /\ \A d \in Directions : Game_move_ship(G, d) = [ret |-> "err", g |-> G]
    /\ Game_rotate_ship(G) = [ret |-> "err", g |-> G]
    /\ \A pos \in SetPositions : Game_set_placement_ship(G, pos) = [ret |-> "err", g |-> G]

\* The phase is Active and the active player holds a staged ship that could
\* be moved: move_ship is rejected all the same.
C18_Witness ==
  /\ state = "Active"
  /\ Staged(players[turn])
  /\ \E d \in Directions :
       /\ move_placement_ship(players[turn], d).ret = "ok"
       /\ Game_move_ship(G, d).ret = "err"

\* C19: in the Placement phase, Game::move_ship and Game::rotate_ship return
\* an error whenever move_placement_ship or rotate_placement_ship of the
\* active player returns one.
C19_FailureReported ==
  state = "Placement" =>
    /\ \A d \in Directions :
         move_placement_ship(players[turn], d).ret = "err"
           => Game_move_ship(G, d).ret = "err"
    /\ rotate_placement_ship(players[turn]).ret = "err"
         => Game_rotate_ship(G).ret = "err"

\* C20: no player holds more ships than are configured; a place_ship that
\* succeeds while fewer ships are held than configured leaves the ships held
\* so far and one staged ship more, of the next configured length; and once
\* the active player has committed all configured ships place_ship returns
\* an error and leaves the game as it was.
C20_FleetWithinCount ==
  /\ \A i \in 0 .. 1 : Len(players[i].ships) <= Len(settings.ships)
  /\ (Game_place_ship(G).ret = "ok" /\ Len(players[turn].ships) < Len(settings.ships))
       => /\ Len(Game_place_ship(G).g.players[turn].ships) = Len(players[turn].ships) + 1
          /\ Staged(Game_place_ship(G).g.players[turn])
          /\ Len(Game_place_ship(G).g.players[turn].ships[Len(players[turn].ships) + 1].position)
               = settings.ships[Len(players[turn].ships) + 1]
          /\ \A k \in 1 .. Len(players[turn].ships) :
               /\ Committed(Game_place_ship(G).g.players[turn].ships[k])
               /\ Game_place_ship(G).g.players[turn].ships[k].position
                    = players[turn].ships[k].position
  /\ (Game_place_ship(G).ret = "ok" /\ Len(players[turn].ships) = Len(settings.ships))
       => Len(Game_place_ship(G).g.players[turn].ships) = Len(settings.ships)
  /\ Game_active_player_placed_all_ships(G)
       => Game_place_ship(G) = [ret |-> "err", g |-> G]

\* The human player has committed every configured ship, each with its
\* configured length, and a further place_ship is rejected.
C20_Witness ==
  /\ state = "Placement"
  /\ ~players[turn].is_cpu
  /\ Game_active_player_placed_all_ships(G)
  /\ \A k \in 1 .. Len(settings.ships) :
       Len(players[turn].ships[k].position) = settings.ships[k]
  /\ Game_place_ship(G).ret = "err"

\* C21: set_state_active returns Ok exactly when the phase is Placement, and
\* then leaves the phase Active, the turn 0 and the players as they were; in
\* any other phase it returns an error and leaves the game as it was.
C21_StartFromPlacement ==
  Game_set_state_active(G)
    = IF state = "Placement"
      THEN [ret |-> "ok",
            g |-> [state |-> "Active", turn |-> 0, players |-> players]]
      ELSE [ret |-> "err", g |-> G]

\* set_state_active is called in the Placement phase while player 1 is the
\* active player, and hands the turn to player 0.
C21_Witness ==
  /\ state = "Placement"
  /\ turn = 1
  /\ Game_set_state_active(G).ret = "ok"
  /\ Game_set_state_active(G).g.turn = 0

\* C22: switch_active_player hands the turn to the other player and changes
\* nothing else; the turn is 0 or 1, the inactive player is not the active
\* one, and a second switch gives the turn back.
C22_SwitchFlipsTurn ==
  /\ turn \in {0, 1}
  /\ Game_not_turn(G) \in {0, 1}
  /\ Game_not_turn(G) # turn
  /\ Game_switch_active_player(G)
       = [ret |-> "ok", g |-> [state |-> state, turn |-> 1 - turn, players |-> players]]
  /\ Game_switch_active_player(Game_switch_active_player(G).g).g = G

\* The turn is with player 1 in an Active game with checked cells, and
\* switch_active_player gives it to player 0.
C22_Witness ==
  /\ state = "Active"
  /\ turn = 1
  /\ \E n \in DOMAIN players[0].spaces : ~is_unchecked(players[0].spaces[n])
  /\ Game_switch_active_player(G).g.turn = 0

\* C23: the grid cursor of every player is a cell of the grid, and a
\* move_grid_cursor or set_grid_cursor call that would put it outside the
\* grid returns an error and leaves it where it was.
C23_CursorInGrid ==
  \A i \in 0 .. 1 :
    /\ InGrid(players[i].grid_cursor)
    /\ \A pos \in SetCells :
         ~InGrid(pos) => set_grid_cursor(players[i], pos) = [ret |-> "err", p |-> players[i]]
    /\ \A d \in Directions :
         ~InGrid(Shift(players[i].grid_cursor, d))
           => move_grid_cursor(players[i], d) = [ret |-> "err", p |-> players[i]]

\* The cells of a sequence of positions.
Range(seq) == {seq[k] : k \in 1 .. Len(seq)}

\* The Unchecked cells of the grid of player i.
UncheckedCells(i) == {c \in Cells : is_unchecked(space(players[i], c))}

\* C24: every cell suggested_checks returns for a player's grid is an
\* Unchecked cell of that grid, and so is every cell Game::suggested_check
\* can return.
C24_SuggestsUnchecked ==
  /\ \A i \in 0 .. 1 :
       suggested_checks(players[i]).ret = "ok"
         => Range(suggested_checks(players[i]).v) \subseteq UncheckedCells(i)
  /\ Game_suggested_check(G).ret = "ok"
       => Game_suggested_check(G).v \subseteq UncheckedCells(Game_not_turn(G))

\* A grid with a hit on an Active ship and a missed cell next to the hit:
\* the suggestions are some of the Unchecked cells, not all of them.
C24_Witness ==
  /\ suggested_checks(players[0]).ret = "ok"
  /\ Range(suggested_checks(players[0]).v) # {}
  /\ Range(suggested_checks(players[0]).v) # UncheckedCells(0)
  /\ \E c \in Cells, d \in Directions :
       /\ is_hit(space(players[0], c))
       /\ Player_ship(players[0], c).some
       /\ is_active(Player_ship(players[0], c).v)
       /\ InGrid(Shift(c, d))
       /\ is_empty(space(players[0], Shift(c, d)))

\* C25: whenever the grid of a player has an Unchecked cell, suggested_checks
\* returns for that grid, and the list it returns is not empty.
C25_SuggestsSomething ==
  \A i \in 0 .. 1 :
    UncheckedCells(i) # {}
      => /\ suggested_checks(players[i]).ret = "ok"
         /\ suggested_checks(players[i]).v # <<>>

\* C26: while the phase is not Complete, the grid of the inactive player has
\* an Unchecked cell and Game::suggested_check returns one of its cells.
C26_CandidateUntilComplete ==
  state # "Complete"
    => /\ UncheckedCells(Game_not_turn(G)) # {}
       /\ Game_suggested_check(G).ret = "ok"
       /\ Game_suggested_check(G).v # {}

\* The live hits of the grid of player i: the hit cells of a ship that is
\* still Active.
LiveHits(i) ==
  {c \in Cells :
     /\ is_hit(space(players[i], c))
     /\ \E k \in 1 .. Len(players[i].ships) :
          Contains(players[i].ships[k].position, c) /\ is_active(players[i].ships[k])}

\* The cells of the grid orthogonally next to c.
Neighbours(c) == {Shift(c, d) : d \in Directions} \cap Cells

\* C27: when the grid has exactly one live hit, no hit cell is next to it
\* and one of its neighbours is Unchecked, suggested_checks returns exactly
\* its Unchecked neighbours.
C27_SingleHitNeighbours ==
  \A i \in 0 .. 1 : \A c \in Cells :
    ( /\ LiveHits(i) = {c}
      /\ \A n \in Neighbours(c) : ~is_hit(space(players[i], n))
      /\ Neighbours(c) \cap UncheckedCells(i) # {} )
    => /\ suggested_checks(players[i]).ret = "ok"
       /\ Range(suggested_checks(players[i]).v) = Neighbours(c) \cap UncheckedCells(i)

\* c is reached from the cell from by walking in direction d over one or
\* more consecutive hit cells of the grid of player i.
RECURSIVE OverHits(_, _, _, _)
OverHits(i, from, d, c) ==
  LET next == Shift(from, d)
  IN  /\ InGrid(next)
      /\ is_hit(space(players[i], next))
      /\ \/ Shift(next, d) = c
         \/ OverHits(i, next, d, c)

\* The line-continuation cells of the grid of player i: the Unchecked cells
\* reached from a live hit by walking in one direction over one or more
\* further consecutive hit cells.
LineContinuations(i) ==
  {c \in UncheckedCells(i) :
     \E h \in LiveHits(i), d \in Directions : OverHits(i, h, d, c)}

\* C28: when a line-continuation cell exists, suggested_checks returns
\* exactly the line-continuation cells.
C28_LineContinuation ==
  \A i \in 0 .. 1 :
    LineContinuations(i) # {}
      => /\ suggested_checks(players[i]).ret = "ok"
         /\ Range(suggested_checks(players[i]).v) = LineContinuations(i)

\* C29: when the grid has no live hit, suggested_checks returns every
\* Unchecked cell of the grid, each once.
C29_HuntAllUnchecked ==
  \A i \in 0 .. 1 :
    LiveHits(i) = {}
      => /\ suggested_checks(players[i]).ret = "ok"
         /\ Range(suggested_checks(players[i]).v) = UncheckedCells(i)
         /\ Len(suggested_checks(players[i]).v) = Cardinality(UncheckedCells(i))

\* C30: no operation of Game or Player called in a reachable state with
\* cells of the grid panics.
C30_NoPanic ==
  /\ \A r \in Operations : r.ret # "panic"
  /\ Game_suggested_check(G).ret # "panic"
  /\ \A i \in 0 .. 1 :
       /\ suggested_checks(players[i]).ret # "panic"
       /\ \A pos \in Cells :
            /\ Player_select_space(players[i], pos).ret # "panic"
            /\ sink_ship_if_all_hit(players[i], pos).ret # "panic"
            /\ set_grid_cursor(players[i], pos).ret # "panic"
       /\ \A d \in Directions :
            /\ move_placement_ship(players[i], d).ret # "panic"
            /\ move_grid_cursor(players[i], d).ret # "panic"
       /\ place_placement_ship(players[i]).ret # "panic"
       /\ rotate_placement_ship(players[i]).ret # "panic"

\* The cell k steps from c in direction d.
ShiftBy(c, d, k) ==
  CASE d = "North" -> <<c[1], c[2] - k>>
    [] d = "East" -> <<c[1] + k, c[2]>>
    [] d = "South" -> <<c[1], c[2] + k>>
    [] d = "West" -> <<c[1] - k, c[2]>>

\* C31, as the claim states it: from_positions(a, b) is the direction of
\* travel from b to a when the points are one unit apart along one axis,
\* and an error for every other pair of points.
C31_OneStepFromSecond ==
  call.op = "from_positions" =>
    LET a == call.args[1]
        b == call.args[2]
    IN  IF \E d \in Directions : Shift(b, d) = a
        THEN Shift(b, call.ret.dir) = a
        ELSE call.ret.dir = "Err"

\* C31, amended: from_positions(a, b) is the direction of travel from a to
\* b when b lies any number of steps from a along one axis, and an error
\* for every other pair of points.
C31_TravelFromFirst ==
  call.op = "from_positions" =>
    LET a == call.args[1]
        b == call.args[2]
    IN  IF \E d \in Directions, k \in 1 .. MaxCoord : ShiftBy(a, d, k) = b
        THEN /\ call.ret.dir \in Directions
             /\ \E k \in 1 .. MaxCoord : ShiftBy(a, call.ret.dir, k) = b
        ELSE call.ret.dir = "Err"

\* from_positions was called with two points two steps apart in a column and
\* returned the direction from the first to the second.
C31_Witness ==
  /\ call.op = "from_positions"
  /\ call.args = <<(<<0, 0>>), (<<0, 2>>)>>
  /\ call.ret.dir = "South"

\* Player::movement in direction d, repeated one to k times from the cell
\* from, arrives at the cell to.
RECURSIVE MovesTo(_, _, _, _)
MovesTo(from, d, to, k) ==
  LET next == movement(players[0], from, d)
  IN  /\ k > 0
      /\ next.some
      /\ \/ next.v = to
         \/ MovesTo(next.v, d, to, k - 1)

\* C32: for two distinct cells of the grid in one row or one column,
\* from_positions(pos1, pos2) is the direction in which Player::movement
\* travels from pos1 to pos2; for identical cells and for cells that differ
\* on both axes it is an error.
C32_MovementConvention ==
  (call.op = "from_positions" /\ call.args[1] \in Cells /\ call.args[2] \in Cells) =>
    LET pos1 == call.args[1]
        pos2 == call.args[2]
    IN  IF pos1 # pos2 /\ (pos1[1] = pos2[1] \/ pos1[2] = pos2[2])
        THEN /\ call.ret.dir \in Directions
             /\ MovesTo(pos1, call.ret.dir, pos2, GridW + GridH)
        ELSE call.ret.dir = "Err"

\* from_positions was called with the last and the first cell of a row and
\* returned West, the direction movement takes from the one to the other.
C32_Witness ==
  /\ call.op = "from_positions"
  /\ call.args = <<(<<GridW - 1, 1>>), (<<0, 1>>)>>
  /\ call.ret.dir = "West"
  /\ MovesTo(<<GridW - 1, 1>>, "West", <<0, 1>>, GridW)

\* C33: Ship::new accepts a position of one cell; for a position of two or
\* more cells it returns a Placement ship with that position, facing from
\* the second cell to the first, exactly when the first two cells are one
\* unit apart along one axis, and otherwise an error.
C33_NewShip ==
  (call.op = "Ship_new" /\ Len(call.args[1]) >= 1) =>
    LET pos == call.args[1]
        r == call.ret
    IN  IF Len(pos) = 1
        THEN r.ret = "ok" /\ is_placement(r.v) /\ r.v.position = pos
        ELSE IF \E d \in Directions : Shift(pos[2], d) = pos[1]
        THEN /\ r.ret = "ok"
             /\ is_placement(r.v)
             /\ r.v.position = pos
             /\ Shift(pos[2], r.v.dir) = pos[1]
        ELSE r.ret = "err"

\* Every consecutive pair of cells of p is one unit apart in direction d,
\* going from the later cell to the earlier.
StraightFacing(p, d) == \A n \in 1 .. (Len(p) - 1) : Shift(p[n + 1], d) = p[n]

\* C34: set_pos(p) succeeds if and only if p is not empty and all its
\* consecutive pairs of cells are one unit apart in one and the same
\* direction; on success the ship has the position p and, when p has two or
\* more cells, the direction of its first two cells; on failure the ship is
\* as it was.
C34_SetPosStraightLine ==
  call.op = "set_pos" =>
    LET ship == call.args[1]
        p == call.args[2]
        r == call.ret
    IN  /\ r.ret = "ok" <=> (p # <<>> /\ \E d \in Directions : StraightFacing(p, d))
        /\ r.ret = "ok" =>
             /\ r.v.position = p
             /\ r.v.state = ship.state
             /\ Len(p) >= 2 => Shift(p[2], r.v.dir) = p[1]
        /\ r.ret # "ok" => r.ret = "err" /\ r.v = ship

\* set_pos was called on a ship facing West with three cells of a column and
\* left the ship on them, facing North.
C34_Witness ==
  /\ call.op = "set_pos"
  /\ call.args[1].dir = "West"
  /\ call.args[2] = <<(<<0, 0>>), (<<0, 1>>), (<<0, 2>>)>>
  /\ call.ret.ret = "ok"
  /\ call.ret.v.position = call.args[2]
  /\ call.ret.v.dir = "North"

\* The run of length cells that starts at head and extends away from the
\* direction d the ship faces.
RunFrom(head, d, length) == [n \in 1 .. length |-> ShiftBy(head, opposite(d), n - 1)]

\* C35: for a head inside the grid, get_ship_position(head, d, length)
\* returns the run of length cells from head away from d when all its cells
\* are inside the grid, and None otherwise, for every length up to 255.
C35_RunInsideGrid ==
  call.op = "get_ship_position" =>
    LET run == RunFrom(call.args[1], call.args[2], call.args[3])
    IN  /\ call.ret.ret = "ok"
        /\ call.ret.v = IF \A n \in 1 .. Len(run) : InGrid(run[n])
                        THEN Some(run)
                        ELSE None

\* C36: on a grid of any size, select_space(pos) with a position inside the
\* grid returns Ok, and afterwards every position inside the grid has its
\* own entry of the spaces array: the entry of pos is checked and the entry
\* of every other position is still Unchecked.
C36_OneEntryPerCell ==
  call.op = "select_space" =>
    LET gs == call.args[1]
        pos == call.args[2]
        r == call.ret
    IN  /\ r.ret = "ok"
        /\ \A q \in Cells :
             valid_space(r.p, q) =>
               /\ space_in_range(r.p, q)
               /\ is_unchecked(space(r.p, q)) <=> q # pos

\* C37: once a selection has closed the turn (turn_active is FALSE), no
\* event changes the opponent's grid until switch_active_player has passed
\* the turn on: a player makes at most one successful selection per turn.
C37_OneSelectionPerTurn ==
  [][(~app.turn_active /\ turn' = turn)
       => players'[Game_not_turn(G)].spaces = players[Game_not_turn(G)].spaces]_vars

\* C38: while the players take turns, one successful selection of an
\* Unchecked cell each, the game is Complete by the time 2 * width * height
\* selections have been made: an Active game has made fewer.
C38_CompleteWithinGrid ==
  state = "Active" => Shots(G) < 2 * GridW * GridH

\* C39: a player's ships before the last one are never in the Placement
\* lifecycle: a player holds at most one staged ship, and it is the last
\* ship of the ships vector, the one move, rotate and place act on.
C39_StagedShipIsLast ==
  \A i \in 0 .. 1 :
    \A k \in 1 .. (Len(players[i].ships) - 1) : ~is_placement(players[i].ships[k])

\* Player 0 has committed its first ship and holds the next one staged
\* behind it, so placement_ship() succeeds.
C39_Witness ==
  /\ Len(players[0].ships) = 2
  /\ ~is_placement(players[0].ships[1])
  /\ is_placement(players[0].ships[2])
  /\ placement_ship_mut(players[0]) = "ok"

====
